---- MODULE Spec2Model ----
(***************************************************************************)
(* A model of libarray (src/src/lib.rs): the Shape arithmetic, the dense   *)
(* rank-2 / rank-3 arrays and their views, the bit-packed rank-3 array and *)
(* the "ND" serialization codec.                                           *)
(*                                                                         *)
(* usize is a machine word of UsizeBits bits; the arithmetic of the        *)
(* library is the wrapping arithmetic of an optimised build.  Tuples are   *)
(* sequences: the Rust field .0 is [1], .1 is [2], .2 is [3].              *)
(***************************************************************************)
EXTENDS Integers, Sequences, FiniteSets, TLC

\* ------------------------------------------------------------------ bounds
\* Width of usize in bits (64 on the real targets, scaled down here).
UsizeBits == 9
\* Largest extent per axis drawn for the shape arithmetic.
MaxExtent == 3
\* Largest number of 64-bit words of the bit arrays that are packed and expanded.
MaxWords == 2
\* Longest period of the element patterns that fill the input arrays.
MaxPeriod == 3
\* Largest extent per axis of the arrays that are serialized.
MaxCodecExtent == 2
\* Most bytes one read of the stream delivers.
MaxChunk == 3
\* Most bytes cut off the end of a stream, or added after its end.
MaxCut == 2
\* Largest extent per axis of the arrays that are viewed.
MaxViewExtent == 2
\* Largest extent per axis of the bounds that are iterated.
MaxIterExtent == 2
\* Most calls of next() on one iterator.
MaxIterCalls == 10

RECURSIVE Pow2(_)
Pow2(n) == IF n = 0 THEN 1 ELSE 2 * Pow2(n - 1)

\* Number of values of a usize; usize arithmetic wraps modulo it.
UsizeRange == Pow2(UsizeBits)

Wrap(x) == x % UsizeRange

VARIABLES
  pc,          \* position of the running operation
  shape,       \* Shape component: the bound under test
  shape_len,   \* Shape component: the value returned by shape.len()
  offs,        \* Shape component: coordinate -> offset computed for it
  byte_arr,    \* Bit packing: the Array3d<u8> handed to from_byte_array
  raw_arr,     \* Bit packing: the BitArray3d
  array,       \* Bit packing: the Array3d<u8> returned by into_bytes
  nonzero_value, \* Bit packing: the sentinel byte
  loop_p,      \* Bit packing: p, the word index of the running loop
  loop_idx,    \* Bit packing: idx, the element index of the running loop
  kind,        \* Codec: the type of self_arr (class and element type)
  self_arr,    \* Codec: the array that is serialized
  writer,      \* Codec: the bytes serialize has written
  target,      \* Codec: the type deserialize is called for
  input,       \* Codec: the whole stream handed to deserialize
  reader,      \* Codec: the part of the stream not consumed yet
  de,          \* Codec: the header locals of deserialize
  arr,         \* Codec: the array deserialize builds
  allocated,   \* Codec: deserialize has allocated arr
  data_bytes,  \* Codec: the byte slice deserialize reads the payload into
  read_idx,    \* Codec: read_idx of the read loop
  io_error,    \* Codec: a read of the stream returned an error
  overrun,     \* Codec: a byte was stored outside the allocation of arr.data
  owner,       \* Views: the Array3d<u8> that owns the buffer
  view,        \* Views: the Array3dViewMut in hand, its slice a window of owner.data
  src,         \* Views: the Array3dView handed to copy_from
  call,        \* Views: the last call made: its receiver and arguments
  iter,        \* Iterator: the MajorIter, its idx and upper_bound
  yielded      \* Iterator: what the calls of next() returned, in order

shapeVars == <<shape, shape_len, offs>>
bitVars == <<byte_arr, raw_arr, array, nonzero_value, loop_p, loop_idx>>
serVars == <<kind, self_arr, writer>>
deVars == <<target, input, reader, de, arr, allocated, data_bytes, read_idx,
            io_error, overrun>>
viewVars == <<owner, view, src, call>>
iterVars == <<iter, yielded>>
vars == <<pc, shapeVars, bitVars, serVars, deVars, viewVars, iterVars>>
\* What the actions of one component leave alone.
notShape == <<bitVars, serVars, deVars, viewVars, iterVars>>
notBits == <<shapeVars, serVars, deVars, viewVars, iterVars>>
notCodec == <<shapeVars, bitVars, viewVars, iterVars>>
notViews == <<shapeVars, bitVars, serVars, deVars, iterVars>>
notIter == <<shapeVars, bitVars, serVars, deVars, viewVars>>

\* ------------------------------------------------------------------ Shape
\* lib.rs 59-61, 75-77, 91-93: to_least_stride for rank 1, 2, 3.
ToLeastStride(s) ==
  CASE Len(s) = 1 -> << >>
    [] Len(s) = 2 -> << s[1] >>
    [] Len(s) = 3 -> << s[1], s[2] >>

\* lib.rs 63-65, 79-81, 95-97: len(), the wrapping product of the extents.
ShapeLen(s) ==
  CASE Len(s) = 1 -> s[1]
    [] Len(s) = 2 -> Wrap(s[1] * s[2])
    [] Len(s) = 3 -> Wrap(Wrap(s[1] * s[2]) * s[3])

\* A plausible slip in offset(): the plane term misses the row stride.
OffsetNoRowStride(c, stride) ==
  CASE Len(c) = 1 -> c[1]
    [] Len(c) = 2 -> Wrap(c[1] + Wrap(c[2] * stride[1]))
    [] Len(c) = 3 -> Wrap(Wrap(c[1] + Wrap(c[2] * stride[1]))
                          + Wrap(c[3] * stride[2]))

\* lib.rs 67-69, 83-85, 99-101: offset(stride).
Offset(c, stride) ==
  CASE Len(c) = 1 -> c[1]
    [] Len(c) = 2 -> Wrap(c[1] + Wrap(c[2] * stride[1]))
    [] Len(c) = 3 -> Wrap(Wrap(c[1] + Wrap(c[2] * stride[1]))
                          + Wrap(Wrap(c[3] * stride[2]) * stride[1]))

\* The coordinates of the box below a bound: 0 <= c_i < bound_i on every axis.
Box(b) ==
  CASE \E a \in 1 .. Len(b) : b[a] = 0 -> {}
    [] Len(b) = 1 -> { << i >> : i \in 0 .. b[1] - 1 }
    [] Len(b) = 2 -> { << i, j >> : i \in 0 .. b[1] - 1, j \in 0 .. b[2] - 1 }
    [] Len(b) = 3 -> { << i, j, k >> : i \in 0 .. b[1] - 1, j \in 0 .. b[2] - 1,
                                       k \in 0 .. b[3] - 1 }

\* The product of the extents as a mathematical integer (no wrapping).
TrueLen(b) ==
  CASE Len(b) = 1 -> b[1]
    [] Len(b) = 2 -> b[1] * b[2]
    [] Len(b) = 3 -> b[1] * b[2] * b[3]

Extents == 0 .. MaxExtent
ShapeBounds ==
  { << a >> : a \in Extents } \cup (Extents \X Extents)
    \cup (Extents \X Extents \X Extents)

\* The components that a specification does not exercise rest at these values.
NoArray == [data |-> << >>, bound |-> << 0, 0, 0 >>, stride |-> << 0, 0 >>]
NoBitArray == [data |-> << >>, bound |-> << 0, 0, 0 >>, raw_len |-> 0]
IdleBits ==
  /\ byte_arr = NoArray /\ raw_arr = NoBitArray /\ array = NoArray
  /\ nonzero_value = 0 /\ loop_p = 0 /\ loop_idx = 0
NoView == [off |-> 0, len |-> 0, bound |-> << 0, 0, 0 >>, stride |-> << 0, 0 >>]
NoCall == [op |-> "none", self |-> NoView, lo |-> << 0, 0, 0 >>,
           hi |-> << 0, 0, 0 >>, c |-> << 0, 0, 0 >>]
IdleViews == owner = NoArray /\ view = NoView /\ src = NoArray /\ call = NoCall
NoIter == [idx |-> << 0, 0, 0 >>, upper_bound |-> << 0, 0, 0 >>]
IdleIter == iter = NoIter /\ yielded = << >>
NoKind == [cls |-> "none", ty |-> "none"]
NoHeader == [magic0 |-> -1, magic1 |-> -1, version |-> -1, data_ty |-> -1,
             ndim |-> << -1, -1 >>, dims |-> << >>]
IdleDeserialize ==
  /\ target = NoKind /\ input = << >> /\ reader = << >> /\ de = NoHeader
  /\ arr = NoArray /\ allocated = FALSE /\ data_bytes = << >> /\ read_idx = 0
  /\ io_error = FALSE /\ overrun = FALSE
IdleCodec ==
  /\ kind = NoKind /\ self_arr = NoArray /\ writer = << >>
  /\ IdleDeserialize
IdleShape == shape = << 0 >> /\ shape_len = 0 /\ offs = << >>

InitShape ==
  /\ pc = "shape"
  /\ shape \in ShapeBounds
  /\ shape_len = 0
  /\ offs = << >>
  /\ IdleBits
  /\ IdleCodec
  /\ IdleViews
  /\ IdleIter

\* A caller asks the bound for its length.
ShapeLenCall ==
  /\ pc = "shape"
  /\ shape_len' = ShapeLen(shape)
  /\ pc' = "offsets"
  /\ UNCHANGED <<shape, offs, notShape>>

\* A caller addresses one more coordinate of the box under the least stride.
ShapeOffsetCall ==
  /\ pc = "offsets"
  /\ DOMAIN offs # Box(shape)
  /\ LET c == CHOOSE x \in Box(shape) \ DOMAIN offs : TRUE
     IN offs' = [x \in DOMAIN offs \cup {c} |->
                   IF x = c THEN Offset(c, ToLeastStride(shape)) ELSE offs[x]]
  /\ UNCHANGED <<pc, shape, shape_len, notShape>>

\* Every coordinate of the box has been addressed.
ShapeDone ==
  /\ pc = "offsets"
  /\ DOMAIN offs = Box(shape)
  /\ pc' = "shape_done"
  /\ UNCHANGED <<shapeVars, notShape>>

NextShape == ShapeLenCall \/ ShapeOffsetCall \/ ShapeDone

SpecShape == InitShape /\ [][NextShape]_vars

\* C3: for every bound of rank 1, 2 or 3 the map from the coordinates of the
\* box to c.offset(bound.to_least_stride()) is a bijection onto 0 .. bound.len():
\* no two coordinates get the same offset, every offset is below len(), and once
\* the whole box is addressed every offset below len() has been hit.
OffsetBijection ==
  pc \in {"offsets", "shape_done"} =>
    /\ \A c1, c2 \in DOMAIN offs : c1 # c2 => offs[c1] # offs[c2]
    /\ \A c \in DOMAIN offs : offs[c] \in 0 .. shape_len - 1
    /\ pc = "shape_done" =>
         /\ DOMAIN offs = Box(shape)
         /\ { offs[c] : c \in DOMAIN offs } = 0 .. shape_len - 1

\* A rank-3 box with more than one element on every axis, fully addressed.
OffsetBijectionWitness ==
  /\ pc = "shape_done"
  /\ Len(shape) = 3
  /\ shape[1] > 1 /\ shape[2] > 1 /\ shape[3] > 1
  /\ shape[1] # shape[2]
  /\ Cardinality(DOMAIN offs) = shape_len

\* ------------------------------------------------------------ dense arrays
\* An element of a freshly allocated buffer that nothing has written yet
\* (Vec::with_capacity followed by set_len): no byte value.
Uninit == -1

\* lib.rs 566-575: Array3d::new, an uninitialised tightly packed array.
Array3dNew(bound) ==
  [data |-> [i \in 1 .. ShapeLen(bound) |-> Uninit],
   bound |-> bound,
   stride |-> ToLeastStride(bound)]

\* lib.rs 577-585: Array3d::with_data (the caller's vector has bound.len()
\* elements, or the constructor's assertion fails).
Array3dWithData(data, bound) ==
  [data |-> data, bound |-> bound, stride |-> ToLeastStride(bound)]

\* ---------------------------------------------------------------- BitArray3d
\* The number of bits of a word of the bit array (u64).
WordBits == 64

\* A u64 word is the set of the positions of its 1 bits.
UninitWord == { Uninit }

\* lib.rs 375, 389: raw_len = (len + 64 - 1) / 64.
RawLen(len) == Wrap(Wrap(len + WordBits) - 1) \div WordBits

\* lib.rs 373-383: BitArray3d::new, uninitialised words.
BitArray3dNew(bound) ==
  [data |-> [p \in 1 .. RawLen(ShapeLen(bound)) |-> UninitWord],
   bound |-> bound,
   raw_len |-> RawLen(ShapeLen(bound))]

\* A plausible slip in the packing: the bit is set one position too high.
BitOrShiftedOneUp(word, s) == word \cup { (s + 1) % WordBits }

\* lib.rs 396: raw_arr.data[p] |= 1u64 << s.
BitOr(word, s) == word \cup { s }

\* lib.rs 418, 445: (mask >> s) & 1.
BitAt(mask, s) == IF s \in mask THEN 1 ELSE 0

\* The least element of a non-empty set of naturals.
Min(S) == CHOOSE x \in S : \A y \in S : x <= y

\* lib.rs 394-402: the number of iterations of the inner loop of
\* from_byte_array that starts at element idx: it runs s = 0, 1, ... and is left
\* after the iteration whose idx += 1 makes idx >= len, or after s = 63.
PackCount(len, idx0) ==
  LET last == { s \in 0 .. WordBits - 1 : Wrap(idx0 + s + 1) >= len }
  IN IF last = {} THEN WordBits ELSE Min(last) + 1

\* lib.rs 393-402: word p of from_byte_array: cleared, then bit s is or-ed in
\* for every iteration s whose byte arr.data[idx] is not 0.  ok is FALSE when
\* an iteration reads arr.data out of range (an index panic).
FromByteWord(data, len, idx0) ==
  LET n == PackCount(len, idx0)
      inRange == { s \in 0 .. n - 1 : idx0 + s < Len(data) }
  IN [word |-> UNION { BitOr({}, s) : s \in { t \in inRange : data[idx0 + t + 1] # 0 } },
      idx |-> Wrap(idx0 + n),
      ok |-> inRange = 0 .. n - 1]

\* lib.rs 416-427: the number of iterations of the inner loop of into_bytes
\* that store an element: it runs s = 0, 1, ... and is left at the first s
\* with 64 * p + s >= len, or after s = 63.
ExpandCount(len, pw) ==
  LET stop == { s \in 0 .. WordBits - 1 : ~(Wrap(Wrap(WordBits * pw) + s) < len) }
  IN IF stop = {} THEN WordBits ELSE Min(stop)

\* lib.rs 415-423: the values the inner loop of into_bytes stores at
\* array.data[idx], array.data[idx + 1], ... for word p, in order.
IntoBytesWord(mask, len, pw, nonzero) ==
  [i \in 1 .. ExpandCount(len, pw) |->
     IF BitAt(mask, i - 1) = 0 THEN 0 ELSE nonzero]

\* Storing the values vals at out[idx], out[idx + 1], ...
StoreAt(out, idx, vals) ==
  [i \in 1 .. Len(out) |->
     IF i > idx /\ i <= idx + Len(vals) THEN vals[i - idx] ELSE out[i]]

\* The flattened lengths that are packed: none, a few, and one below, at and
\* one above every multiple of 64 up to MaxWords words.
BitLens ==
  { 0, 1, 5 } \cup
  { n \in { WordBits * k + d : k \in 1 .. MaxWords, d \in { -1, 0, 1 } } : n >= 0 }
BitBounds ==
  { << n, 1, 1 >> : n \in BitLens } \cup { << 1, 1, n >> : n \in BitLens }
    \cup { << 2, 2, 2 >>, << 4, 4, 4 >>, << 5, 13, 1 >>, << 3, 0, 2 >> }
Sentinels == { 1, 9, 255 }

\* Element i (from 0) is the sentinel when i is phase modulo period, else 0;
\* phase = period gives the all-zero array.
PatternData(len, period, phase, v) ==
  [i \in 1 .. len |-> IF (i - 1) % period = phase THEN v ELSE 0]

InitBits ==
  /\ pc = "bits"
  /\ nonzero_value \in Sentinels
  /\ \E b \in BitBounds, period \in 1 .. MaxPeriod :
       \E phase \in 0 .. period :
         byte_arr = Array3dWithData(
                      PatternData(ShapeLen(b), period, phase, nonzero_value), b)
  /\ raw_arr = NoBitArray
  /\ array = NoArray
  /\ loop_p = 0 /\ loop_idx = 0
  /\ IdleShape
  /\ IdleCodec
  /\ IdleViews
  /\ IdleIter

\* lib.rs 386-391: from_byte_array asserts that the source is tightly packed,
\* allocates the bit array and enters the loop over its words.
FromByteArrayBegin ==
  /\ pc = "bits"
  /\ IF byte_arr.stride = ToLeastStride(byte_arr.bound)
     THEN /\ raw_arr' = BitArray3dNew(byte_arr.bound)
          /\ pc' = "pack_loop"
     ELSE /\ raw_arr' = raw_arr
          /\ pc' = "bits_panic"
  /\ loop_p' = 0
  /\ loop_idx' = 0
  /\ UNCHANGED <<byte_arr, array, nonzero_value, notBits>>

\* lib.rs 392-403: one iteration of the loop over the words: word p is cleared
\* and filled from the next (at most 64) bytes.
FromByteArrayWord ==
  /\ pc = "pack_loop"
  /\ loop_p < RawLen(ShapeLen(raw_arr.bound))
  /\ LET r == FromByteWord(byte_arr.data, ShapeLen(raw_arr.bound), loop_idx)
     IN /\ raw_arr' = [raw_arr EXCEPT !.data[loop_p + 1] = r.word]
        /\ loop_idx' = r.idx
        /\ pc' = IF r.ok THEN "pack_loop" ELSE "bits_panic"
  /\ loop_p' = loop_p + 1
  /\ UNCHANGED <<byte_arr, array, nonzero_value, notBits>>

\* lib.rs 405: the loop is over and from_byte_array returns raw_arr.
FromByteArrayReturn ==
  /\ pc = "pack_loop"
  /\ loop_p >= RawLen(ShapeLen(raw_arr.bound))
  /\ pc' = "packed"
  /\ UNCHANGED <<bitVars, notBits>>

\* lib.rs 409-413: into_bytes allocates the byte array and enters its loop.
IntoBytesBegin ==
  /\ pc = "packed"
  /\ array' = Array3dNew(raw_arr.bound)
  /\ loop_p' = 0
  /\ loop_idx' = 0
  /\ pc' = "expand_loop"
  /\ UNCHANGED <<byte_arr, raw_arr, nonzero_value, notBits>>

\* lib.rs 414-428: one iteration of the loop over the words: the bits of word p
\* that lie below len are expanded into array.data[loop_idx ..].
IntoBytesWordStep ==
  /\ pc = "expand_loop"
  /\ loop_p < raw_arr.raw_len
  /\ LET vals == IntoBytesWord(raw_arr.data[loop_p + 1], ShapeLen(raw_arr.bound),
                               loop_p, nonzero_value)
     IN IF loop_idx + Len(vals) <= Len(array.data)
        THEN /\ array' = [array EXCEPT !.data = StoreAt(array.data, loop_idx, vals)]
             /\ loop_idx' = loop_idx + Len(vals)
             /\ pc' = "expand_loop"
        ELSE /\ array' = array
             /\ loop_idx' = loop_idx
             /\ pc' = "bits_panic"
  /\ loop_p' = loop_p + 1
  /\ UNCHANGED <<byte_arr, raw_arr, nonzero_value, notBits>>

\* lib.rs 430: the loop is over and into_bytes returns array.
IntoBytesReturn ==
  /\ pc = "expand_loop"
  /\ loop_p >= raw_arr.raw_len
  /\ pc' = "expanded"
  /\ UNCHANGED <<bitVars, notBits>>

NextBits ==
  \/ FromByteArrayBegin \/ FromByteArrayWord \/ FromByteArrayReturn
  \/ IntoBytesBegin \/ IntoBytesWordStep \/ IntoBytesReturn

SpecBits == InitBits /\ [][NextBits]_vars

\* C4: for every tightly packed Array3d<u8> whose elements are each 0 or one
\* fixed nonzero sentinel, from_byte_array followed by into_bytes(sentinel)
\* returns (neither call panics) an array with the same bound and the same
\* value at every flattened index, and the bit array in between has
\* ceil(len / 64) words over the same bound.
BitPackRoundTrip ==
  /\ pc # "bits_panic"
  /\ pc \in {"packed", "expand_loop", "expanded"} =>
       /\ raw_arr.bound = byte_arr.bound
       /\ raw_arr.raw_len * WordBits >= ShapeLen(byte_arr.bound)
       /\ raw_arr.raw_len * WordBits < ShapeLen(byte_arr.bound) + WordBits
       /\ Len(raw_arr.data) = raw_arr.raw_len
  /\ pc = "expanded" =>
       /\ array.bound = byte_arr.bound
       /\ array.stride = byte_arr.stride
       /\ array.data = byte_arr.data

\* An array one element longer than a word, its last element (alone in the
\* second word) the sentinel, packed and expanded.
BitPackRoundTripWitness ==
  /\ pc = "expanded"
  /\ Len(byte_arr.data) = WordBits + 1
  /\ byte_arr.data[WordBits + 1] = nonzero_value
  /\ byte_arr.data[WordBits] = 0
  /\ array.data[WordBits + 1] = nonzero_value

\* -------------------------------------------------------------------- codec
\* The array types of the codec: the class and the element type T.
Array2dU8 == [cls |-> "Array2d", ty |-> "u8"]
Array2dF32 == [cls |-> "Array2d", ty |-> "f32"]
Array3dU8 == [cls |-> "Array3d", ty |-> "u8"]
Array3dF32 == [cls |-> "Array3d", ty |-> "f32"]
BitArray3d == [cls |-> "BitArray3d", ty |-> "bits"]
Kinds == { Array2dU8, Array2dF32, Array3dU8, Array3dF32, BitArray3d }

\* The rank of the bound of an array type.
Rank(k) == IF k.cls = "Array2d" THEN 2 ELSE 3

\* lib.rs 108-114: serial_id of u8 and of f32; lib.rs 487, 518: the tag of
\* the bit array.
SerialIdU8 == 0
SerialIdF32 == 1
SerialIdBits == 255
SerialId(ty) ==
  CASE ty = "u8" -> SerialIdU8
    [] ty = "f32" -> SerialIdF32
    [] ty = "bits" -> SerialIdBits

\* size_of::<u8>(), size_of::<f32>(), and the bytes of a u64 word.
SizeOfU8 == 1
SizeOfF32 == 4
SizeOfWord == 8
SizeOf(ty) ==
  CASE ty = "u8" -> SizeOfU8
    [] ty = "f32" -> SizeOfF32
    [] ty = "bits" -> SizeOfWord

\* lib.rs 213-214: b'N', b'D'.
MagicN == 78
MagicD == 68
\* lib.rs 251, 519, 655: 0x0000444e, the low half of the first header word.
MagicLowHalf == 17486

\* The little-endian bytes of x, n of them.
RECURSIVE LEBytes(_, _)
LEBytes(x, n) == IF n = 0 THEN << >> ELSE << x % 256 >> \o LEBytes(x \div 256, n - 1)

\* A u32 is kept as its two 16-bit halves << low, high >>.
\* lib.rs 251: 0x0000444e | ((ty_id as u32) << 24).
MagicWord(ty_id) == << MagicLowHalf, ty_id * 256 >>
U32(n) == << n, 0 >>
\* byteorder write_u32::<LittleEndian> and read_u32::<LittleEndian>.
WriteU32(w) == LEBytes(w[1], 2) \o LEBytes(w[2], 2)
ReadU32(b) == << b[1] + 256 * b[2], b[3] + 256 * b[4] >>
\* byteorder write_u64::<LittleEndian> of (x as u64).
WriteU64(x) == LEBytes(x, 8)
\* byteorder read_u64::<LittleEndian> followed by `as usize`: the value modulo
\* the range of usize.
RECURSIVE ReadU64AsUsize(_)
ReadU64AsUsize(b) ==
  IF b = << >> THEN 0 ELSE Wrap(b[1] + 256 * ReadU64AsUsize(Tail(b)))

\* 8 bytes per extent after the two 4-byte words.
HeaderSize(k) == 8 + 8 * Rank(k)

\* lib.rs 250-259, 518-529, 654-665: the header serialize writes.
RECURSIVE WriteExtents(_)
WriteExtents(bound) ==
  IF bound = << >> THEN << >> ELSE WriteU64(bound[1]) \o WriteExtents(Tail(bound))
Header(k, bound) ==
  WriteU32(MagicWord(SerialId(k.ty))) \o WriteU32(U32(Rank(k))) \o WriteExtents(bound)

\* The native (little-endian) bytes of a u64 word given as its set of 1 bits.
BitVal(word, k) == IF k \in word THEN 1 ELSE 0
WordByte(word, j) ==
  BitVal(word, 8 * j) + 2 * BitVal(word, 8 * j + 1) + 4 * BitVal(word, 8 * j + 2)
    + 8 * BitVal(word, 8 * j + 3) + 16 * BitVal(word, 8 * j + 4)
    + 32 * BitVal(word, 8 * j + 5) + 64 * BitVal(word, 8 * j + 6)
    + 128 * BitVal(word, 8 * j + 7)

\* from_raw_parts(data.as_ptr() as *const u8, ..): the bytes of a buffer of
\* elements of type ty (a u8 is its value, an f32 its 4 bytes, a word its 8).
AsBytes(ty, data) ==
  CASE ty = "u8" -> data
    [] ty = "f32" ->
         [i \in 1 .. SizeOfF32 * Len(data) |->
            data[((i - 1) \div SizeOfF32) + 1][((i - 1) % SizeOfF32) + 1]]
    [] ty = "bits" ->
         [i \in 1 .. SizeOfWord * Len(data) |->
            WordByte(data[((i - 1) \div SizeOfWord) + 1], (i - 1) % SizeOfWord)]

\* The elements of type ty that a buffer of bytes holds (its length a multiple
\* of the element size); a word with a byte never written stays unwritten.
ByteBit(v, t) == (v \div Pow2(t)) % 2
AsElements(ty, bytes) ==
  CASE ty = "u8" -> bytes
    [] ty = "f32" ->
         [e \in 1 .. Len(bytes) \div SizeOfF32 |->
            SubSeq(bytes, SizeOfF32 * (e - 1) + 1, SizeOfF32 * e)]
    [] ty = "bits" ->
         [e \in 1 .. Len(bytes) \div SizeOfWord |->
            IF \E j \in 1 .. SizeOfWord : bytes[SizeOfWord * (e - 1) + j] = Uninit
            THEN UninitWord
            ELSE { k \in 0 .. WordBits - 1 :
                     ByteBit(bytes[SizeOfWord * (e - 1) + (k \div 8) + 1], k % 8) = 1 }]

\* lib.rs 167-176: Array2d::new.
Array2dNew(bound) ==
  [data |-> [i \in 1 .. ShapeLen(bound) |-> Uninit],
   bound |-> bound,
   stride |-> ToLeastStride(bound)]

\* Array2d::new, Array3d::new or BitArray3d::new for the type k.
NewArray(k, bound) ==
  CASE k.cls = "Array2d" -> Array2dNew(bound)
    [] k.cls = "Array3d" -> Array3dNew(bound)
    [] k.cls = "BitArray3d" -> BitArray3dNew(bound)

\* lib.rs 231, 261: size_of::<f32>() * data.len() (Array2d, whatever T is);
\* lib.rs 635, 667: size_of::<T>() * data.len() (Array3d);
\* lib.rs 499, 530: 8 * raw_len (BitArray3d).
PayloadLen(k, a) ==
  CASE k.cls = "Array2d" -> Wrap(SizeOfF32 * Len(a.data))
    [] k.cls = "Array3d" -> Wrap(SizeOf(k.ty) * Len(a.data))
    [] k.cls = "BitArray3d" -> Wrap(SizeOfWord * a.raw_len)

\* The bytes that the allocation of a.data really holds.
AllocLen(k, a) == SizeOf(k.ty) * Len(a.data)

\* lib.rs 204-206, 469-471, 605-607: serial_size.
SerialSize(k, bound) ==
  CASE k.cls = "Array2d" -> Wrap(24 + ShapeLen(bound))
    [] k.cls = "Array3d" -> Wrap(32 + ShapeLen(bound))
    [] k.cls = "BitArray3d" ->
         Wrap(32 + Wrap((Wrap(Wrap(ShapeLen(bound) + 64) - 1) \div 64) * 8))

\* lib.rs 260, 666: a dense array is written only when tightly packed.
TightlyPacked(k, a) ==
  k.cls = "BitArray3d" \/ ToLeastStride(a.bound) = a.stride

\* lib.rs 222-223, 488-489, 624-625: the two assertions on the element-type
\* tag and on the rank; here without the one on the rank.
TypeOkRankUnchecked(data_ty, ndim, k) == data_ty = SerialId(k.ty)

\* lib.rs 222-223, 488-489, 624-625: assert_eq!(data_ty, expected_data_ty);
\* assert_eq!(ndim, rank).
TypeRankOk(data_ty, ndim, k) ==
  /\ data_ty = SerialId(k.ty)
  /\ ndim = U32(Rank(k))

\* The arrays that are serialized.  Their extents are small, or so large
\* that the product of the extents exceeds the range of usize: len() wraps,
\* and the buffer has the wrapped number of elements (Array3d::with_data
\* accepts such a vector, Array2d::new and BitArray3d::new allocate it).
HalfRange == UsizeRange \div 2
CodecExtents == 0 .. MaxCodecExtent
CodecBounds(k) ==
  CASE k.cls = "Array2d" ->
         (CodecExtents \X CodecExtents)
           \cup { << HalfRange, 2 >>, << HalfRange + 1, 2 >> }
    [] k.cls = "Array3d" ->
         (CodecExtents \X CodecExtents \X CodecExtents)
           \cup { << HalfRange, 2, 1 >>, << HalfRange + 1, 1, 2 >> }
    [] k.cls = "BitArray3d" ->
         (CodecExtents \X CodecExtents \X CodecExtents)
           \cup { << HalfRange, 2, 1 >>, << HalfRange + 1, 1, 2 >>, << 5, 13, 1 >> }
CodecSeeds == { 5, 250 }

\* The contents of the serialized arrays: n elements (words) that differ from
\* one index to the next.
SourceData(ty, n, seed) ==
  CASE ty = "u8" -> [i \in 1 .. n |-> (seed + 7 * (i - 1)) % 256]
    [] ty = "f32" ->
         [i \in 1 .. n |-> << (seed + i - 1) % 256, (3 * (i - 1)) % 256, seed, 63 >>]
    [] ty = "bits" ->
         [w \in 1 .. n |->
            { k \in 0 .. WordBits - 1 : (WordBits * (w - 1) + k + seed) % 3 = 0 }]

SourceArray(k, bound, seed) ==
  IF k.cls = "BitArray3d"
  THEN [data |-> SourceData(k.ty, RawLen(ShapeLen(bound)), seed),
        bound |-> bound,
        raw_len |-> RawLen(ShapeLen(bound))]
  ELSE [data |-> SourceData(k.ty, ShapeLen(bound), seed),
        bound |-> bound,
        stride |-> ToLeastStride(bound)]

InitCodec ==
  /\ pc = "codec"
  /\ kind \in Kinds
  /\ \E b \in CodecBounds(kind), seed \in CodecSeeds :
       self_arr = SourceArray(kind, b, seed)
  /\ writer = << >>
  /\ IdleDeserialize
  /\ IdleShape
  /\ IdleBits
  /\ IdleViews
  /\ IdleIter

\* What a read outside an allocation may find there.
GarbageBytes == { 0, 170 }

\* lib.rs 249-269, 517-535, 653-675: self_arr.serialize(&mut writer), the
\* writer a growing vector of bytes.  The bytes handed to write_all start at
\* the buffer of the array and are PayloadLen of them; those past the end of
\* the allocation are read out of bounds, which yields garbage or a fault.
SerializeCall ==
  /\ pc = "codec"
  /\ \E fault \in BOOLEAN, g \in GarbageBytes :
       LET hdr == Header(kind, self_arr.bound)
           n == PayloadLen(kind, self_arr)
           held == AsBytes(kind.ty, self_arr.data)
       IN IF ~TightlyPacked(kind, self_arr)
          THEN writer' = hdr /\ pc' = "ser_panic"
          ELSE IF n <= Len(held)
          THEN writer' = hdr \o SubSeq(held, 1, n) /\ pc' = "serialized"
          ELSE IF fault
          THEN writer' = hdr /\ pc' = "ser_fault"
          ELSE /\ writer' = hdr \o held \o [i \in 1 .. n - Len(held) |-> g]
               /\ pc' = "serialized"
  /\ UNCHANGED <<kind, self_arr, deVars, notCodec>>

\* The bytes that replace one byte of a header.
CorruptBytes == { 1, 2, 3, 255 }

\* The caller hands a stream to T::deserialize(&mut reader): the bytes written,
\* for any type T; or, for the type written, those bytes with one byte of the
\* first two header words replaced, with the end cut off, or followed by more.
OpenReader ==
  /\ pc = "serialized"
  /\ \/ /\ target' \in Kinds
        /\ input' = writer
     \/ /\ target' = kind
        /\ \E pos \in 1 .. 8, v \in CorruptBytes :
             /\ v # writer[pos]
             /\ input' = [writer EXCEPT ![pos] = v]
     \/ /\ target' = kind
        /\ \E cut \in 1 .. MaxCut :
             /\ cut <= Len(writer)
             /\ input' = SubSeq(writer, 1, Len(writer) - cut)
     \/ /\ target' = kind
        /\ \E more \in 1 .. MaxCut :
             input' = writer \o [i \in 1 .. more |-> 17]
  /\ reader' = input'
  /\ pc' = "de_magic"
  /\ UNCHANGED <<serVars, de, arr, allocated, data_bytes, read_idx, io_error,
                 overrun, notCodec>>

\* lib.rs 209-214, 474-479, 610-615: the two magic bytes are read and asserted.
DeserializeMagic ==
  /\ pc = "de_magic"
  /\ IF Len(reader) < 2
     THEN /\ pc' = "de_panic"
          /\ UNCHANGED <<de, reader>>
     ELSE /\ de' = [de EXCEPT !.magic0 = reader[1], !.magic1 = reader[2]]
          /\ reader' = SubSeq(reader, 3, Len(reader))
          /\ pc' = IF reader[1] = MagicN /\ reader[2] = MagicD
                   THEN "de_version" ELSE "de_panic"
  /\ UNCHANGED <<serVars, target, input, arr, allocated, data_bytes, read_idx,
                 io_error, overrun, notCodec>>

\* lib.rs 215-217, 480-482, 616-618: the version byte is read and asserted.
DeserializeVersion ==
  /\ pc = "de_version"
  /\ IF Len(reader) < 1
     THEN /\ pc' = "de_panic"
          /\ UNCHANGED <<de, reader>>
     ELSE /\ de' = [de EXCEPT !.version = reader[1]]
          /\ reader' = Tail(reader)
          /\ pc' = IF reader[1] = 0 THEN "de_type_rank" ELSE "de_panic"
  /\ UNCHANGED <<serVars, target, input, arr, allocated, data_bytes, read_idx,
                 io_error, overrun, notCodec>>

\* lib.rs 218-223, 483-489, 619-625: the element-type tag and the rank are
\* read, then both are asserted.
DeserializeTypeRank ==
  /\ pc = "de_type_rank"
  /\ IF Len(reader) < 5
     THEN /\ pc' = "de_panic"
          /\ UNCHANGED <<de, reader>>
     ELSE /\ de' = [de EXCEPT !.data_ty = reader[1],
                              !.ndim = ReadU32(SubSeq(reader, 2, 5))]
          /\ reader' = SubSeq(reader, 6, Len(reader))
          /\ pc' = IF TypeRankOk(reader[1], ReadU32(SubSeq(reader, 2, 5)), target)
                   THEN "de_bounds" ELSE "de_panic"
  /\ UNCHANGED <<serVars, target, input, arr, allocated, data_bytes, read_idx,
                 io_error, overrun, notCodec>>

\* lib.rs 224-228, 490-496, 626-632: one u64 extent per axis is read and cast
\* to usize.
DeserializeBounds ==
  /\ pc = "de_bounds"
  /\ IF Len(reader) < 8 * Rank(target)
     THEN /\ pc' = "de_panic"
          /\ UNCHANGED <<de, reader>>
     ELSE /\ de' = [de EXCEPT !.dims =
                      [a \in 1 .. Rank(target) |->
                         ReadU64AsUsize(SubSeq(reader, 8 * (a - 1) + 1, 8 * a))]]
          /\ reader' = SubSeq(reader, 8 * Rank(target) + 1, Len(reader))
          /\ pc' = "de_alloc"
  /\ UNCHANGED <<serVars, target, input, arr, allocated, data_bytes, read_idx,
                 io_error, overrun, notCodec>>

\* lib.rs 229-232, 497-500, 633-636: the array is allocated for the bound read
\* and its buffer is taken as a slice of PayloadLen bytes.
DeserializeAlloc ==
  /\ pc = "de_alloc"
  /\ arr' = NewArray(target, de.dims)
  /\ allocated' = TRUE
  /\ data_bytes' = [i \in 1 .. PayloadLen(target, arr') |-> Uninit]
  /\ read_idx' = 0
  /\ pc' = "de_read"
  /\ UNCHANGED <<serVars, target, input, reader, de, io_error, overrun, notCodec>>

\* lib.rs 233-243, 501-511, 637-647: one iteration of the read loop.  The read
\* fills a non-empty prefix of data_bytes[read_idx ..], or returns 0 when that
\* slice is empty or the stream is at its end; 0 leaves the loop.  A byte
\* stored past the allocation of arr.data overruns the heap, which the run
\* survives or not.
DeserializeRead ==
  /\ pc = "de_read"
  /\ \E n \in 0 .. MaxChunk, fault \in BOOLEAN :
       LET room == Len(data_bytes) - read_idx
           over == read_idx + n > AllocLen(target, arr)
       IN /\ IF room = 0 \/ reader = << >>
             THEN n = 0
             ELSE n >= 1 /\ n <= room /\ n <= Len(reader)
          /\ fault => over
          /\ IF fault
             THEN /\ pc' = "de_fault"
                  /\ overrun' = TRUE
                  /\ UNCHANGED <<data_bytes, read_idx, reader>>
             ELSE /\ data_bytes' = StoreAt(data_bytes, read_idx, SubSeq(reader, 1, n))
                  /\ read_idx' = Wrap(read_idx + n)
                  /\ reader' = SubSeq(reader, n + 1, Len(reader))
                  /\ overrun' = (overrun \/ over)
                  /\ pc' = IF n = 0 THEN "de_check" ELSE "de_read"
  /\ UNCHANGED <<serVars, target, input, de, arr, allocated, io_error, notCodec>>

\* lib.rs 244-246, 512-514, 648-650: assert_eq!(read_idx, data_bytes.len()),
\* then Ok(arr); the buffer of arr is the memory the bytes were read into.
DeserializeReturn ==
  /\ pc = "de_check"
  /\ IF read_idx = Len(data_bytes)
     THEN /\ arr' = [arr EXCEPT !.data =
                       AsElements(target.ty,
                                  SubSeq(data_bytes, 1, AllocLen(target, arr)))]
          /\ pc' = "de_ok"
     ELSE /\ arr' = arr
          /\ pc' = "de_panic"
  /\ UNCHANGED <<serVars, target, input, reader, de, allocated, data_bytes,
                 read_idx, io_error, overrun, notCodec>>

\* lib.rs 210, 216, 219, 221, 225, 241: a read of the stream returns an error
\* and deserialize panics.
DeserializeIoError ==
  /\ pc \in {"de_magic", "de_version", "de_type_rank", "de_bounds", "de_read"}
  /\ io_error' = TRUE
  /\ pc' = "de_panic"
  /\ UNCHANGED <<serVars, target, input, reader, de, arr, allocated, data_bytes,
                 read_idx, overrun, notCodec>>

NextCodec ==
  \/ SerializeCall \/ OpenReader
  \/ DeserializeMagic \/ DeserializeVersion \/ DeserializeTypeRank
  \/ DeserializeBounds \/ DeserializeAlloc \/ DeserializeRead
  \/ DeserializeReturn \/ DeserializeIoError

SpecCodec == InitCodec /\ [][NextCodec]_vars

\* The product of the extents of the bound fits a usize.
FitsUsize(bound) == TrueLen(bound) < UsizeRange

\* The array deserialize returned holds what the serialized array held: the
\* same elements, or for a bit array the same bit at every index below len().
SameContents(k, a, b) ==
  IF k.cls = "BitArray3d"
  THEN /\ Len(a.data) = Len(b.data)
       /\ \A i \in 0 .. ShapeLen(a.bound) - 1 :
            BitAt(a.data[(i \div WordBits) + 1], i % WordBits)
              = BitAt(b.data[(i \div WordBits) + 1], i % WordBits)
  ELSE a.data = b.data

\* C1: for every supported element type and every bound (here: every bound
\* whose length fits a usize), serializing a tightly packed Array2d, Array3d
\* or BitArray3d and deserializing the bytes written as the same type succeeds
\* and yields an array with the same bound and the same element values.
SerializationRoundTrip ==
  FitsUsize(self_arr.bound) =>
    /\ pc \notin {"ser_panic", "ser_fault"}
    /\ (/\ pc \in {"de_ok", "de_panic", "de_fault"}
        /\ target = kind
        /\ input = writer
        /\ ~io_error)
       => /\ pc = "de_ok"
          /\ arr.bound = self_arr.bound
          /\ SameContents(kind, arr, self_arr)

\* The payload size of the format: element_size * len() for a dense array,
\* 8 * ceil(len() / 64) for the bit array.
FormatPayloadSize(k, bound) ==
  IF k.cls = "BitArray3d"
  THEN 8 * ((TrueLen(bound) + 63) \div 64)
  ELSE SizeOf(k.ty) * TrueLen(bound)

\* C2: for every bound (here: every bound whose length fits a usize) and
\* every supported element type, serial_size(bound) is the number of bytes
\* serialize writes: the header (24 bytes for rank 2, 32 for rank 3) plus
\* element_size * len() payload bytes, 8 * ceil(len() / 64) for BitArray3d.
SerialSizeIsBytesWritten ==
  (pc = "serialized" /\ FitsUsize(self_arr.bound)) =>
    /\ Len(writer) = SerialSize(kind, self_arr.bound)
    /\ Len(writer) = HeaderSize(kind) + FormatPayloadSize(kind, self_arr.bound)

\* The first two words of the stream are those of a header of type k: the
\* magic bytes, version 0, the tag of k and the rank of k.
HeaderMatches(b, k) ==
  /\ Len(b) >= 8
  /\ b[1] = MagicN /\ b[2] = MagicD
  /\ b[3] = 0
  /\ b[4] = SerialId(k.ty)
  /\ SubSeq(b, 5, 8) = << Rank(k), 0, 0, 0 >>

\* C5: in every deserialize a header with wrong magic bytes, a version other
\* than 0, a tag other than the tag of the target type or a rank other than
\* the target rank makes deserialize fail before the buffer is allocated:
\* neither the reading of the extents nor the allocation step is reached, and
\* no array is ever allocated, unless the header matches the target type.
NoAllocationOnBadHeader ==
  (allocated \/ pc \in {"de_bounds", "de_alloc", "de_read", "de_check", "de_ok",
                        "de_fault"})
    => HeaderMatches(input, target)

\* A stream whose header is right but for its rank has made deserialize panic
\* with nothing allocated.
NoAllocationOnBadHeaderWitness ==
  /\ pc = "de_panic"
  /\ ~allocated
  /\ ~io_error
  /\ Len(input) >= HeaderSize(target)
  /\ input[1] = MagicN /\ input[2] = MagicD /\ input[3] = 0
  /\ input[4] = SerialId(target.ty)
  /\ SubSeq(input, 5, 8) # << Rank(target), 0, 0, 0 >>
  /\ de.ndim # U32(Rank(target))

\* C9: len() never returns a wrapped product, so no array (one built by
\* deserialize from the extents read off the stream included) is allocated
\* with a buffer shorter than the true element count of its bound.
NoWrappedLength ==
  allocated =>
    /\ ShapeLen(arr.bound) = TrueLen(arr.bound)
    /\ IF target.cls = "BitArray3d"
       THEN WordBits * Len(arr.data) >= TrueLen(arr.bound)
       ELSE Len(arr.data) >= TrueLen(arr.bound)

\* C10: after a valid header the read loop ends for every chunking of the
\* stream with the same outcome: when the stream holds at least payload_size
\* more bytes and no read fails, deserialize returns with exactly the first
\* payload_size bytes stored in the buffer in stream order and no byte beyond
\* them consumed; when the stream ends earlier or a read fails, it panics.
PayloadReadExact ==
  (/\ pc \in {"de_ok", "de_panic", "de_fault"}
   /\ allocated
   /\ FitsUsize(arr.bound))
  => LET need == FormatPayloadSize(target, arr.bound)
         have == Len(input) - HeaderSize(target)
     IN IF have >= need /\ ~io_error
        THEN /\ pc = "de_ok"
             /\ ~overrun
             /\ read_idx = need
             /\ Len(reader) = have - need
             /\ data_bytes = SubSeq(input, HeaderSize(target) + 1,
                                    HeaderSize(target) + need)
        ELSE pc = "de_panic"

\* -------------------------------------------------------------------- views
\* A mutable view is [off, len, bound, stride]: its slice `data` is the window
\* owner.data[off .. off + len) of the buffer it borrows.

\* lib.rs 556-562: Array3d::as_view_mut, a view of the whole buffer.
AsViewMut(a) ==
  [off |-> 0, len |-> Len(a.data), bound |-> a.bound, stride |-> a.stride]

\* lib.rs 548-554: Array3d::as_view, a shared view of the whole buffer.
AsView(a) == [data |-> a.data, bound |-> a.bound, stride |-> a.stride]

\* lib.rs 750: (hi.0 - lo.0, hi.1 - lo.1, hi.2 - lo.2), each a usize.
NewBound(lo, hi) ==
  << Wrap(hi[1] - lo[1] + UsizeRange), Wrap(hi[2] - lo[2] + UsizeRange),
     Wrap(hi[3] - lo[3] + UsizeRange) >>

\* lib.rs 749-764: what view_mut(lo, hi) returns for the view self; ok is
\* FALSE when one of its assertions fails.
ViewMut(self, lo, hi) ==
  LET new_bound == NewBound(lo, hi)
      new_offset == Offset(lo, self.stride)
      new_offset_end == Wrap(new_offset + ShapeLen(new_bound))
  IN [ok |-> /\ self.stride = ToLeastStride(self.bound)
             /\ new_offset <= self.len
             /\ new_offset_end <= self.len
             /\ new_offset <= new_offset_end,
      value |-> [off |-> self.off + new_offset,
                 len |-> new_offset_end - new_offset,
                 bound |-> new_bound,
                 stride |-> self.stride]]

\* lib.rs 718: assert_eq!(self.bound(), src.bound()).
BoundsAgree(self_bound, src_bound) == self_bound = src_bound

\* lib.rs 719 with the test of the strides left out: every layout is copied.
CopyLayoutUnchecked(self, source) == TRUE

\* lib.rs 719: the layouts for which copy_from copies.
CopyLayoutOk(self, source) ==
  /\ self.stride = ToLeastStride(self.bound)
  /\ self.stride = source.stride

\* lib.rs 720: self.data.clone_from_slice(src.data) on the window of the
\* view: the elements both slices have are copied.
CloneFromSlice(data, self, source) ==
  [i \in 1 .. Len(data) |->
     IF /\ i > self.off /\ i <= self.off + self.len
        /\ i - self.off <= Len(source.data)
     THEN source.data[i - self.off]
     ELSE data[i]]

ViewExtents == 0 .. MaxViewExtent
ViewBounds == ViewExtents \X ViewExtents \X ViewExtents
\* The arguments of view_mut along an axis of extent n, as << lo, hi >>: the
\* whole axis, its first index, all but its first index, the empty range at
\* its end, one past its end, and an inverted range.
AxisArgs(n) ==
  LET m == Min({n, MaxViewExtent})
  IN { << 0, m >>, << 0, 1 >>, << 1, m >>, << m, m >>, << 0, m + 1 >>, << 1, 0 >> }
ViewArgs(b) == AxisArgs(b[1]) \X AxisArgs(b[2]) \X AxisArgs(b[3])
\* The coordinates below the bound b that a caller writes at.
ViewCoords(b) == { c \in ViewBounds : \A a \in 1 .. 3 : c[a] < b[a] }
\* The byte a caller writes through a view, unlike every byte of the arrays.
WrittenByte == 200

\* The owning array holds 1, 2, 3, ... in flattened order.
InitViews ==
  /\ pc = "owner"
  /\ \E b \in ViewBounds :
       owner = Array3dWithData([i \in 1 .. ShapeLen(b) |-> i], b)
  /\ view = NoView
  /\ src = NoArray
  /\ call = NoCall
  /\ IdleShape
  /\ IdleBits
  /\ IdleCodec
  /\ IdleIter

\* owner.as_view_mut().
AsViewMutCall ==
  /\ pc = "owner"
  /\ view' = AsViewMut(owner)
  /\ call' = [NoCall EXCEPT !.op = "as_view_mut"]
  /\ pc' = "view"
  /\ UNCHANGED <<owner, src, notViews>>

\* view.view_mut(lo, hi): the view is consumed and the sub-view returned, or
\* an assertion fails.
ViewMutCall ==
  /\ pc = "view"
  \* sub-views are taken of the whole view and of its sub-views, no deeper
  /\ call.op = "as_view_mut" \/ call.self = AsViewMut(owner)
  /\ \E args \in ViewArgs(view.bound) :
       LET lo == << args[1][1], args[2][1], args[3][1] >>
           hi == << args[1][2], args[2][2], args[3][2] >>
           r == ViewMut(view, lo, hi)
       IN /\ call' = [op |-> "view_mut", self |-> view, lo |-> lo, hi |-> hi,
                      c |-> << 0, 0, 0 >>]
          /\ view' = IF r.ok THEN r.value ELSE view
          /\ pc' = IF r.ok THEN "view" ELSE "view_panic"
  /\ UNCHANGED <<owner, src, notViews>>

\* view.as_mut_slice()[c.offset(view.stride())] = WrittenByte for a coordinate
\* c below the bound of the view (lib.rs 713-715 and the index of a slice,
\* which panics out of range).
SliceWrite ==
  /\ pc = "view"
  /\ \E c \in ViewCoords(view.bound) :
       LET i == Offset(c, view.stride)
       IN /\ call' = [call EXCEPT !.op = "write", !.c = c]
          /\ IF i < view.len
             THEN /\ owner' = [owner EXCEPT !.data[view.off + i + 1] = WrittenByte]
                  /\ pc' = "written"
             ELSE /\ owner' = owner
                  /\ pc' = "write_panic"
  /\ UNCHANGED <<view, src, notViews>>

\* The bounds of the arrays copied from: the bound of the view, that of the
\* owner, one with the same stride and one more plane, and one with the same
\* length and another stride.
SrcBounds ==
  { view.bound, owner.bound,
    << view.bound[1], view.bound[2], Wrap(view.bound[3] + 1) >>,
    << view.bound[2], view.bound[1], view.bound[3] >> }

\* lib.rs 717-725: view.copy_from(&other.as_view()) for another array, which
\* holds 101, 102, ... in flattened order.
CopyFrom ==
  /\ pc = "view"
  /\ \E b \in SrcBounds :
       /\ src' = AsView(Array3dWithData([i \in 1 .. ShapeLen(b) |-> 100 + i], b))
       /\ call' = [NoCall EXCEPT !.op = "copy_from", !.self = view]
       /\ IF BoundsAgree(view.bound, src'.bound) /\ CopyLayoutOk(view, src')
          THEN /\ owner' = [owner EXCEPT !.data = CloneFromSlice(owner.data, view, src')]
               /\ pc' = "copied"
          ELSE /\ owner' = owner
               /\ pc' = "copy_panic"
  /\ UNCHANGED <<view, notViews>>

NextViews == AsViewMutCall \/ ViewMutCall \/ SliceWrite \/ CopyFrom

SpecViews == InitViews /\ [][NextViews]_vars

\* A view is tightly packed when its stride is the least stride of its bound.
TightView(v) == v.stride = ToLeastStride(v.bound)

\* The precondition of view_mut(lo, hi) on the view self.
ViewMutArgsValid(self, lo, hi) ==
  /\ TightView(self)
  /\ \A a \in 1 .. 3 : lo[a] <= hi[a] /\ hi[a] <= self.bound[a]

Plus(lo, c) == << lo[1] + c[1], lo[2] + c[2], lo[3] + c[3] >>

\* C6: view_mut(lo, hi) on a tightly packed view with lo <= hi <= bound
\* returns a view of bound hi - lo and of the parent's stride; every
\* coordinate c below hi - lo is addressed inside the window of the sub-view
\* and is the parent's element at lo + c, and a write through the sub-view at
\* c lands on the parent's element at lo + c.
SubViewAddressesParent ==
  /\ (call.op = "view_mut" /\ ViewMutArgsValid(call.self, call.lo, call.hi)) =>
       /\ pc = "view"
       /\ view.bound = << call.hi[1] - call.lo[1], call.hi[2] - call.lo[2],
                          call.hi[3] - call.lo[3] >>
       /\ view.stride = call.self.stride
       /\ \A c \in Box(view.bound) :
            /\ Offset(c, view.stride) < view.len
            /\ view.off + Offset(c, view.stride)
                 = call.self.off + Offset(Plus(call.lo, c), call.self.stride)
  /\ (/\ call.op = "write"
      /\ call.self # NoView
      /\ ViewMutArgsValid(call.self, call.lo, call.hi)) =>
       /\ pc = "written"
       /\ owner.data[call.self.off
                       + Offset(Plus(call.lo, call.c), call.self.stride) + 1]
            = WrittenByte

\* C7: view_mut(lo, hi) aborts and returns no view whenever the parent's
\* stride is not the least stride of its bound or lo <= hi <= bound fails on
\* an axis.
ViewMutAbortsOnViolation ==
  (call.op = "view_mut" /\ ~ViewMutArgsValid(call.self, call.lo, call.hi)) =>
    pc = "view_panic"

\* C8: copy_from is all-or-nothing. With equal bounds and both sides tightly
\* packed with equal stride, the window of the destination ends up holding
\* the source's elements index by index, both of the same length, and nothing
\* outside the window changes; otherwise the call panics and no element of
\* the buffer changes.
CopyAllOrNothing ==
  [][(pc = "view" /\ pc' \in {"copied", "copy_panic"}) =>
       IF /\ view.bound = src'.bound
          /\ TightView(view) /\ TightView(src')
          /\ view.stride = src'.stride
       THEN /\ pc' = "copied"
            /\ view.len = Len(src'.data)
            /\ view.len = ShapeLen(view.bound)
            /\ \A i \in 1 .. Len(owner.data) :
                 owner'.data[i] = IF i > view.off /\ i <= view.off + view.len
                                  THEN src'.data[i - view.off]
                                  ELSE owner.data[i]
       ELSE /\ pc' = "copy_panic"
            /\ owner'.data = owner.data]_vars

\* A sub-view that starts inside the buffer has been overwritten by a source
\* of the same bound.
CopyAllOrNothingWitness ==
  /\ pc = "copied"
  /\ view.off > 0
  /\ view.len > 1
  /\ \A i \in 1 .. view.len : owner.data[view.off + i] = src.data[i]
  /\ owner.data[1] = 1

\* ----------------------------------------------------------------- MajorIter
\* lib.rs 20-25: Shape::major_iter, idx the default (0, 0, 0).
MajorIter(bound) == [idx |-> << 0, 0, 0 >>, upper_bound |-> bound]

\* What next() returns when it returns None.
None == << >>

\* lib.rs 36-53: MajorIter::next, as the iterator it leaves and the item it
\* returns.
MajorIterNext(it) ==
  LET i0 == Wrap(it.idx[1] + 1)
      i1 == Wrap(it.idx[2] + 1)
      i2 == Wrap(it.idx[3] + 1)
      ub == it.upper_bound
  IN IF i0 < ub[1]
     THEN [it |-> [it EXCEPT !.idx = << i0, it.idx[2], it.idx[3] >>],
           item |-> << i0, it.idx[2], it.idx[3] >>]
     ELSE IF i1 < ub[2]
     THEN [it |-> [it EXCEPT !.idx = << 0, i1, it.idx[3] >>],
           item |-> << 0, i1, it.idx[3] >>]
     ELSE IF i2 < ub[3]
     THEN [it |-> [it EXCEPT !.idx = << 0, 0, i2 >>],
           item |-> << 0, 0, i2 >>]
     ELSE [it |-> [it EXCEPT !.idx = << 0, 0, i2 >>], item |-> None]

IterExtents == 0 .. MaxIterExtent
IterBounds == IterExtents \X IterExtents \X IterExtents

InitIter ==
  /\ pc = "shape"
  /\ iter = NoIter
  /\ yielded = << >>
  /\ IdleShape
  /\ IdleBits
  /\ IdleCodec
  /\ IdleViews

\* b.major_iter() for a rank-3 bound b.
MajorIterCall ==
  /\ pc = "shape"
  /\ \E b \in IterBounds : iter' = MajorIter(b)
  /\ yielded' = << >>
  /\ pc' = "iterating"
  /\ UNCHANGED notIter

\* One call of iter.next().
NextCall ==
  /\ pc = "iterating"
  /\ Len(yielded) < MaxIterCalls
  /\ LET r == MajorIterNext(iter)
     IN /\ iter' = r.it
        /\ yielded' = Append(yielded, r.item)
  /\ UNCHANGED <<pc, notIter>>

NextIter == MajorIterCall \/ NextCall

SpecIter == InitIter /\ [][NextIter]_vars

\* The i-th coordinate (from 1) of the box below b with axis 0 varying fastest.
MajorOrder(b, i) ==
  << (i - 1) % b[1], ((i - 1) \div b[1]) % b[2], (i - 1) \div (b[1] * b[2]) >>

\* C11: the calls of next() on b.major_iter() return the coordinates of the
\* box below b, each once, axis 0 fastest and (0, 0, 0) first, then None, and
\* None on every call after that.
MajorIterYieldsBox ==
  pc = "iterating" =>
    \A i \in 1 .. Len(yielded) :
      yielded[i] = IF i <= TrueLen(iter.upper_bound)
                   THEN MajorOrder(iter.upper_bound, i)
                   ELSE None

====
